---- MODULE Spec2Model ----
(***************************************************************************)
(* Model of economist_mcp.py: the Playwright fetch primitive               *)
(* (fetch_content), the cookie-string parsing inside it, and the two       *)
(* extractors (_get_latest_briefing_logic, _read_full_article_logic).      *)
(*                                                                         *)
(* Text is a sequence of one-character strings.  An HTML document is a     *)
(* flat, document-ordered sequence of elements (tag name, data-component   *)
(* attribute, class list, text nodes) plus the span of elements that are   *)
(* descendants of the first article[data-testid="Article"] element.        *)
(***************************************************************************)
EXTENDS Integers, Sequences, FiniteSets, TLC

VARIABLES op, url, env_cookie, pc, playwright, browser, context, cookies,
          ctx_cookies, page, content, err, propagating, result

vars == <<op, url, env_cookie, pc, playwright, browser, context, cookies,
          ctx_cookies, page, content, err, propagating, result>>

(***************************************************************************)
(* Bounds of the model.                                                    *)
(***************************************************************************)
MaxElems == 3
MaxCookieLen == 4

(***************************************************************************)
(* Program constants.                                                      *)
(***************************************************************************)
MinLength == 100
CookieDomain == ".economist.com"
CookiePath == "/"

(***************************************************************************)
(* Python string primitives.                                               *)
(***************************************************************************)
Whitespace == {" ", "\n", "\t"}

RECURSIVE LStrip(_)
LStrip(s) ==
    IF s # <<>> /\ Head(s) \in Whitespace THEN LStrip(Tail(s)) ELSE s

RECURSIVE RStrip(_)
RStrip(s) ==
    IF s # <<>> /\ s[Len(s)] \in Whitespace
    THEN RStrip(SubSeq(s, 1, Len(s) - 1))
    ELSE s

\* str.strip()
Strip(s) == RStrip(LStrip(s))

\* c in s, for a single character c
HasChar(s, c) == \E i \in 1..Len(s) : s[i] = c

\* s.find(c) + 1, for a character c that occurs in s
FirstIndex(s, c) == CHOOSE i \in 1..Len(s) : s[i] = c /\ \A j \in 1..(i - 1) : s[j] # c

\* s.split(c)
RECURSIVE Split(_, _)
Split(s, c) ==
    IF ~HasChar(s, c)
    THEN <<s>>
    ELSE LET i == FirstIndex(s, c)
         IN  <<SubSeq(s, 1, i - 1)>> \o Split(SubSeq(s, i + 1, Len(s)), c)

\* s.split(c, 1)
Split1(s, c) ==
    IF ~HasChar(s, c)
    THEN <<s>>
    ELSE LET i == FirstIndex(s, c)
         IN  <<SubSeq(s, 1, i - 1), SubSeq(s, i + 1, Len(s))>>

\* marker in text
Contains(text, marker) ==
    \E i \in 1..(Len(text) - Len(marker) + 1) :
        SubSeq(text, i, i + Len(marker) - 1) = marker

\* sep.join(parts)
RECURSIVE Join(_, _)
Join(parts, sep) ==
    IF parts = <<>> THEN <<>>
    ELSE IF Len(parts) = 1 THEN parts[1]
    ELSE parts[1] \o sep \o Join(Tail(parts), sep)

(***************************************************************************)
(* Cookie-string parsing: the loop of fetch_content over                   *)
(* cookie_str.split(';').                                                  *)
(***************************************************************************)
Cookie(name, value) ==
    [name |-> name, value |-> value, domain |-> CookieDomain, path |-> CookiePath]

\* The loop body with the segment split as it stands, not trimmed first.
CookieItemUntrimmed(acc, item) ==
    IF HasChar(item, "=")
    THEN LET parts == Split1(item, "=")
         IN  IF Len(parts) = 2
             THEN Append(acc, Cookie(parts[1], parts[2]))
             ELSE acc
    ELSE acc

\* One iteration of the loop body: the cookies list after handling item.
CookieItem(acc, item) ==
    IF HasChar(item, "=")
    THEN LET parts == Split1(Strip(item), "=")
         IN  IF Len(parts) = 2
             THEN Append(acc, Cookie(parts[1], parts[2]))
             ELSE acc          \* except ValueError: continue
    ELSE acc

RECURSIVE CookieLoop(_, _)
CookieLoop(acc, items) ==
    IF items = <<>> THEN acc
    ELSE CookieLoop(CookieItem(acc, Head(items)), Tail(items))

ParseCookieString(cookie_str) == CookieLoop(<<>>, Split(cookie_str, ";"))

(***************************************************************************)
(* String literals of the extractors.                                      *)
(***************************************************************************)
JustAMoment == <<"J","u","s","t"," ","a"," ","m","o","m","e","n","t">>
EnableJavaScript ==
    <<"E","n","a","b","l","e"," ","J","a","v","a","S","c","r","i","p","t">>
TitlePrefix == <<"T","i","t","l","e",":"," ">>
SubheadingPrefix == <<"S","u","b","h","e","a","d","i","n","g",":"," ">>
BodyMarker == <<"\n","B","o","d","y",":","\n">>
TitleNotFound ==
    <<"T","i","t","l","e"," ","n","o","t"," ","f","o","u","n","d">>
HeadingPrefix == <<"\n","#","#"," ">>
BlankLine == <<"\n","\n">>
NewLine == <<"\n">>
Space == <<" ">>

ErrFetchFailed ==
    "Error: Failed to fetch content. Cloudflare might be blocking or network issue."
ErrBriefingBlocked ==
    "Error: Still blocked by Cloudflare challenge. Please try updating cookies."
ErrStructureChanged ==
    "Error: Could not find briefing content. Structure might have changed."
ErrBriefingTooShort == "Error: Briefing content too short."
ErrArticleBlocked == "Error: Blocked by Cloudflare challenge."
ErrContainerMissing ==
    "Error: Could not find article container. Check URL or cookie validity."
ErrInsufficient ==
    "Error: Could not extract sufficient text. Check cookie validity or paywall status."

\* A returned "Error: ..." string, and a returned formatted text.
Failed(msg) == [ok |-> FALSE, msg |-> msg, text |-> <<>>]
Ok(text) == [ok |-> TRUE, msg |-> "", text |-> text]
NoResult == [ok |-> FALSE, msg |-> "", text |-> <<>>]

(***************************************************************************)
(* The elements of the modelled documents.                                 *)
(***************************************************************************)
Elem(name, dc, class, nodes) ==
    [name |-> name, dc |-> dc, class |-> class, nodes |-> nodes]

LongText == [i \in 1..MinLength |-> "x"]

ParaLong == Elem("p", "paragraph", {}, <<LongText>>)
ParaHi == Elem("p", "paragraph", {}, << <<" ","H","i"," ">>, <<"\n","y","o">> >>)
ParaBlank == Elem("p", "paragraph", {}, << <<" ","\n">> >>)
ParaStyled == Elem("p", "paragraph", {"css-p09rkj"}, << <<"P","s">> >>)
BriefLong == Elem("p", "the-world-in-brief-paragraph", {}, <<LongText>>)
BriefStyled ==
    Elem("p", "the-world-in-brief-paragraph", {"css-p09rkj", "e1pqka930"},
         << <<"B","s">> >>)
Heading == Elem("h3", "", {"css-p09rkj", "e1pqka930"}, << <<"H","d"," ">> >>)
TitleElem ==
    Elem("h1", "", {"css-1tik00t", "e1qjd5lc0"}, << <<"T"," ">>, <<"i">> >>)
SubheadingElem == Elem("h2", "", {"css-1fxcbca", "e6h2z500"}, << <<"S","u">> >>)
ChallengeMoment == Elem("div", "", {}, <<JustAMoment>>)
ChallengeScript == Elem("div", "", {}, <<EnableJavaScript>>)

\* The tags of the modelled documents, by name.
Elements ==
    {"ParaLong", "ParaHi", "ParaBlank", "ParaStyled", "BriefLong", "BriefStyled",
     "Heading", "TitleElem", "SubheadingElem", "ChallengeMoment", "ChallengeScript"}

ElemOf(tag) ==
    CASE tag = "ParaLong" -> ParaLong
      [] tag = "ParaHi" -> ParaHi
      [] tag = "ParaBlank" -> ParaBlank
      [] tag = "ParaStyled" -> ParaStyled
      [] tag = "BriefLong" -> BriefLong
      [] tag = "BriefStyled" -> BriefStyled
      [] tag = "Heading" -> Heading
      [] tag = "TitleElem" -> TitleElem
      [] tag = "SubheadingElem" -> SubheadingElem
      [] tag = "ChallengeMoment" -> ChallengeMoment
      [] tag = "ChallengeScript" -> ChallengeScript


(***************************************************************************)
(* HTML documents and the BeautifulSoup queries the extractors use.        *)
(***************************************************************************)
\* content = "" : the value fetch_content returns after a caught exception
EmptyHtml == [empty |-> TRUE, elems |-> <<>>, art |-> <<>>]

\* BeautifulSoup(html_content, "html.parser"): the element tree of the
\* document, each tag of the source parsed into its name, attributes and
\* text nodes
Soup(html_content) ==
    [elems |-> [i \in 1..Len(html_content.elems) |-> ElemOf(html_content.elems[i])],
     art |-> html_content.art]

\* soup.select_one('article[data-testid="Article"]') found an element
HasArticle(soup) == soup.art # <<>>

\* indices of the elements that are descendants of the article container
ArticleScope(soup) ==
    IF HasArticle(soup) THEN soup.art[1]..soup.art[2] ELSE {}

\* container = article if article else soup
ContainerScope(soup) ==
    IF HasArticle(soup) THEN ArticleScope(soup) ELSE 1..Len(soup.elems)

\* p[data-component="the-world-in-brief-paragraph"]
IsBriefParagraph(e) == e.name = "p" /\ e.dc = "the-world-in-brief-paragraph"
\* .css-p09rkj.e1pqka930
IsHeadingStyle(e) == {"css-p09rkj", "e1pqka930"} \subseteq e.class
\* p[data-component="paragraph"]
IsParagraph(e) == e.name = "p" /\ e.dc = "paragraph"
\* .css-1tik00t.e1qjd5lc0
IsTitleStyle(e) == {"css-1tik00t", "e1qjd5lc0"} \subseteq e.class
\* .css-1fxcbca.e6h2z500
IsSubheadingStyle(e) == {"css-1fxcbca", "e6h2z500"} \subseteq e.class

\* the selector of the briefing extractor
BriefingSelector(e) == IsBriefParagraph(e) \/ IsHeadingStyle(e) \/ IsParagraph(e)

\* The CSS selectors the extractors pass to select and select_one.
BriefingCss ==
    "p[data-component=\"the-world-in-brief-paragraph\"], .css-p09rkj.e1pqka930, p[data-component=\"paragraph\"]"
TitleCss == ".css-1tik00t.e1qjd5lc0"
SubheadingCss == ".css-1fxcbca.e6h2z500"
ParagraphCss == "p[data-component=\"paragraph\"]"

\* element e matches the selector
Matches(css, e) ==
    CASE css = BriefingCss -> BriefingSelector(e)
      [] css = TitleCss -> IsTitleStyle(e)
      [] css = SubheadingCss -> IsSubheadingStyle(e)
      [] css = ParagraphCss -> IsParagraph(e)

\* container.select(css): the matching elements of a scope, in document order
RECURSIVE SelectFrom(_, _, _, _)
SelectFrom(soup, scope, css, i) ==
    IF i > Len(soup.elems) THEN <<>>
    ELSE (IF i \in scope /\ Matches(css, soup.elems[i]) THEN <<soup.elems[i]>> ELSE <<>>)
         \o SelectFrom(soup, scope, css, i + 1)

Select(soup, scope, css) == SelectFrom(soup, scope, css, 1)

\* the stripped, non-empty text nodes of an element
RECURSIVE StrippedNodes(_)
StrippedNodes(nodes) ==
    IF nodes = <<>> THEN <<>>
    ELSE (IF Strip(Head(nodes)) # <<>> THEN <<Strip(Head(nodes))>> ELSE <<>>)
         \o StrippedNodes(Tail(nodes))

\* elem.get_text(separator=' ', strip=True)
GetTextSep(e) == Join(StrippedNodes(e.nodes), Space)
\* elem.get_text(strip=True)
GetTextStrip(e) == Join(StrippedNodes(e.nodes), <<>>)

\* soup.get_text(): every text node of the document, concatenated
RECURSIVE SoupTextFrom(_, _)
SoupTextFrom(elems, i) ==
    IF i > Len(elems) THEN <<>>
    ELSE Join(elems[i].nodes, <<>>) \o SoupTextFrom(elems, i + 1)

SoupText(soup) == SoupTextFrom(soup.elems, 1)

(***************************************************************************)
(* _get_latest_briefing_logic, after fetch_content has returned.           *)
(***************************************************************************)
\* The loop body without the `if not text: continue` guard.
BriefingPartKeepingEmpty(parts, elem) ==
    LET text == GetTextSep(elem)
    IN  IF IsBriefParagraph(elem) THEN Append(parts, text)
        ELSE IF "css-p09rkj" \in elem.class THEN Append(parts, HeadingPrefix \o text)
        ELSE IF IsParagraph(elem) THEN Append(parts, text)
        ELSE parts

\* the body of the loop over elements: content_parts after handling elem
BriefingPart(parts, elem) ==
    LET text == GetTextSep(elem)
    IN  IF text = <<>> THEN parts
        ELSE IF IsBriefParagraph(elem) THEN Append(parts, text)
        ELSE IF "css-p09rkj" \in elem.class THEN Append(parts, HeadingPrefix \o text)
        ELSE IF IsParagraph(elem) THEN Append(parts, text)
        ELSE parts

RECURSIVE BriefingParts(_, _)
BriefingParts(parts, elements) ==
    IF elements = <<>> THEN parts
    ELSE BriefingParts(BriefingPart(parts, Head(elements)), Tail(elements))

BriefingElements(soup) == Select(soup, ContainerScope(soup), BriefingCss)

BriefingFullText(soup) ==
    Join(BriefingParts(<<>>, BriefingElements(soup)), BlankLine)

\* The check with one of the two phrases forgotten.
BriefingChallengeMomentOnly(text) == Contains(text, JustAMoment)

\* The check written `"Just a moment" in text or "Enable JavaScript"`, whose
\* second operand is a non-empty string and so always true.
BriefingChallengeTruthy(text) == Contains(text, JustAMoment) \/ TRUE

\* the check made when no element matched
BriefingChallenge(text) ==
    Contains(text, JustAMoment) \/ Contains(text, EnableJavaScript)

\* The length check reduced to a test for empty output.
BriefingTooShortOnlyIfEmpty(full_text) == Len(full_text) = 0

\* the final length check
BriefingTooShort(full_text) == Len(full_text) < MinLength

BriefingLogic(html_content) ==
    LET soup == Soup(html_content)
    IN
    IF html_content.empty THEN Failed(ErrFetchFailed)
    ELSE IF BriefingElements(soup) = <<>>
         THEN IF BriefingChallenge(SoupText(soup))
              THEN Failed(ErrBriefingBlocked)
              ELSE Failed(ErrStructureChanged)
    ELSE IF BriefingTooShort(BriefingFullText(soup))
         THEN Failed(ErrBriefingTooShort)
    ELSE Ok(BriefingFullText(soup))

(***************************************************************************)
(* _read_full_article_logic, after fetch_content has returned.             *)
(***************************************************************************)
\* the check made when the article container is absent
ArticleChallenge(text) == Contains(text, JustAMoment)

ArticleTitle(soup) ==
    LET found == Select(soup, ArticleScope(soup), TitleCss)
    IN  IF found # <<>> THEN GetTextStrip(found[1]) ELSE TitleNotFound

\* <<>> stands for None (and for the empty string, which is equally falsy)
ArticleSubheading(soup) ==
    LET found == Select(soup, ArticleScope(soup), SubheadingCss)
    IN  IF found # <<>> THEN GetTextStrip(found[1]) ELSE <<>>

\* The paragraph loop inserting each text at the front of the list.
RECURSIVE ParagraphTextsReversed(_)
ParagraphTextsReversed(elements) ==
    IF elements = <<>> THEN <<>>
    ELSE ParagraphTextsReversed(Tail(elements))
         \o (IF GetTextSep(Head(elements)) # <<>>
             THEN <<GetTextSep(Head(elements))>> ELSE <<>>)

RECURSIVE ParagraphTexts(_)
ParagraphTexts(elements) ==
    IF elements = <<>> THEN <<>>
    ELSE (IF GetTextSep(Head(elements)) # <<>>
          THEN <<GetTextSep(Head(elements))>> ELSE <<>>)
         \o ParagraphTexts(Tail(elements))

ArticleParagraphs(soup) ==
    ParagraphTexts(Select(soup, ArticleScope(soup), ParagraphCss))

ArticleParts(title, subheading, paragraphs) ==
    <<TitlePrefix \o title>>
    \o (IF subheading # <<>> THEN <<SubheadingPrefix \o subheading>> ELSE <<>>)
    \o <<BodyMarker \o Join(paragraphs, BlankLine)>>

ArticleFullText(soup) ==
    Join(ArticleParts(ArticleTitle(soup), ArticleSubheading(soup),
                      ArticleParagraphs(soup)), NewLine)

\* the final check
ArticleInsufficient(paragraphs, full_text) ==
    Len(paragraphs) = 0 \/ Len(full_text) < MinLength

ArticleLogic(html_content) ==
    LET soup == Soup(html_content)
    IN
    IF ~HasArticle(soup)
    THEN IF ArticleChallenge(SoupText(soup))
         THEN Failed(ErrArticleBlocked)
         ELSE Failed(ErrContainerMissing)
    ELSE IF ArticleInsufficient(ArticleParagraphs(soup), ArticleFullText(soup))
         THEN Failed(ErrInsufficient)
    ELSE Ok(ArticleFullText(soup))

(***************************************************************************)
(* Inputs: the pages the site can serve and the ECONOMIST_COOKIE values.   *)
(***************************************************************************)
\* no article container, or a container holding elements lo..hi
Spans(n) == {<<>>} \cup {s \in (1..n) \X (1..n) : s[1] <= s[2]}

Page(elems, art) == [empty |-> FALSE, elems |-> elems, art |-> art]

\* a few elements, for the runs that vary the cookie string instead
SampleElements == {"ParaLong", "BriefLong", "ChallengeMoment"}

CookieChars == {"a", "=", ";", " "}
ExampleCookie ==
    <<"a","=","1",";"," ","b","=","2",";","b","a","d","t","o","k","e","n",";","c","=","3">>

\* os.getenv("ECONOMIST_COOKIE"): None, or a string
Unset == [set |-> FALSE, str |-> <<>>]
EnvStr(s) == [set |-> TRUE, str |-> s]

CookieStrings ==
    UNION {[1..n -> CookieChars] : n \in 0..MaxCookieLen} \cup {ExampleCookie}

ArticleUrl == "https://www.economist.com/an-article"
BriefingUrl == "https://www.economist.com/the-world-in-brief"

(***************************************************************************)
(* The state machine: one call of a tool, step by step.                    *)
(***************************************************************************)
InitWith(envs) ==
    /\ op \in {"briefing", "article"}
    /\ url = IF op = "briefing" THEN BriefingUrl ELSE ArticleUrl
    /\ env_cookie \in envs
    /\ pc = "enter"
    /\ playwright = "none"
    /\ browser = "none"
    /\ context = "none"
    /\ cookies = <<>>
    /\ ctx_cookies = <<>>
    /\ page = "none"
    /\ content = EmptyHtml
    /\ err = "none"
    /\ propagating = FALSE
    /\ result = NoResult

\* with sync_playwright() as p:
EnterPlaywright ==
    /\ pc = "enter"
    /\ playwright' = "running"
    /\ pc' = "launch"
    /\ UNCHANGED <<op, url, env_cookie, browser, context, cookies, ctx_cookies,
                   page, content, err, propagating, result>>

\* browser = p.chromium.launch(headless=True)
Launch ==
    /\ pc = "launch"
    /\ browser' = "open"
    /\ pc' = "new_context"
    /\ UNCHANGED <<op, url, env_cookie, playwright, context, cookies, ctx_cookies,
                   page, content, err, propagating, result>>

\* context = browser.new_context(...)
NewContext ==
    /\ pc = "new_context"
    /\ context' = "created"
    /\ pc' = "getenv"
    /\ UNCHANGED <<op, url, env_cookie, playwright, browser, cookies, ctx_cookies,
                   page, content, err, propagating, result>>

\* cookie_str = os.getenv(...); if cookie_str: ... the parsing loop
ParseCookies ==
    /\ pc = "getenv"
    /\ cookies' = IF env_cookie.set /\ env_cookie.str # <<>>
                  THEN ParseCookieString(env_cookie.str)
                  ELSE <<>>
    /\ pc' = IF cookies' # <<>> THEN "add_cookies" ELSE "new_page"
    /\ UNCHANGED <<op, url, env_cookie, playwright, browser, context, ctx_cookies,
                   page, content, err, propagating, result>>

\* if cookies: context.add_cookies(cookies)
AddCookies ==
    /\ pc = "add_cookies"
    /\ ctx_cookies' = cookies
    /\ pc' = "new_page"
    /\ UNCHANGED <<op, url, env_cookie, playwright, browser, context, cookies,
                   page, content, err, propagating, result>>

\* page = context.new_page()
NewPage ==
    /\ pc = "new_page"
    /\ page' = "blank"
    /\ pc' = "goto"
    /\ UNCHANGED <<op, url, env_cookie, playwright, browser, context, cookies,
                   ctx_cookies, content, err, propagating, result>>

\* An exception raised by a call made before the try statement: nothing in
\* fetch_content catches it, so control leaves the with block.
StepsBeforeTry == {"launch", "new_context", "add_cookies", "new_page"}

RaiseBeforeTry ==
    /\ pc \in StepsBeforeTry
    /\ err' = pc
    /\ propagating' = TRUE
    /\ pc' = "exit"
    /\ UNCHANGED <<op, url, env_cookie, playwright, browser, context, cookies,
                   ctx_cookies, page, content, result>>

\* page.goto(url, wait_until="domcontentloaded", timeout=60000)
Goto ==
    /\ pc = "goto"
    /\ page' = url
    /\ pc' = "wait_for_selector"
    /\ UNCHANGED <<op, url, env_cookie, playwright, browser, context, cookies,
                   ctx_cookies, content, err, propagating, result>>

\* page.wait_for_selector(..., timeout=30000) inside try/except: pass.
\* The selector appears, or the wait times out or fails; the bare except
\* swallows the exception and the fetch proceeds either way.
WaitForSelector ==
    /\ pc = "wait_for_selector"
    /\ \E outcome \in {"found", "timeout"} : pc' = "evaluate"
    /\ UNCHANGED <<op, url, env_cookie, playwright, browser, context, cookies,
                   ctx_cookies, page, content, err, propagating, result>>

\* page.evaluate("window.scrollTo(0, document.body.scrollHeight)")
Evaluate ==
    /\ pc = "evaluate"
    /\ pc' = "wait_for_timeout"
    /\ UNCHANGED <<op, url, env_cookie, playwright, browser, context, cookies,
                   ctx_cookies, page, content, err, propagating, result>>

\* page.wait_for_timeout(2000)
WaitForTimeout ==
    /\ pc = "wait_for_timeout"
    /\ pc' = "content"
    /\ UNCHANGED <<op, url, env_cookie, playwright, browser, context, cookies,
                   ctx_cookies, page, content, err, propagating, result>>

\* content = page.content(), the site serving one of the given pages
Content(elements, maxlen) ==
    /\ pc = "content"
    /\ \E n \in 0..maxlen : \E es \in [1..n -> elements] : \E a \in Spans(n) :
           content' = Page(es, a)
    /\ pc' = "finally"
    /\ UNCHANGED <<op, url, env_cookie, playwright, browser, context, cookies,
                   ctx_cookies, page, err, propagating, result>>

\* An exception raised inside the try statement (a navigation timeout
\* included): except Exception sets content = "".
StepsInTry == {"goto", "evaluate", "wait_for_timeout", "content"}

RaiseInTry ==
    /\ pc \in StepsInTry
    /\ err' = pc
    /\ content' = EmptyHtml
    /\ pc' = "finally"
    /\ UNCHANGED <<op, url, env_cookie, playwright, browser, context, cookies,
                   ctx_cookies, page, propagating, result>>

\* finally: browser.close()
BrowserClose ==
    /\ pc = "finally"
    /\ browser' = "closed"
    /\ pc' = "exit"
    /\ UNCHANGED <<op, url, env_cookie, playwright, context, cookies, ctx_cookies,
                   page, content, err, propagating, result>>

\* Leaving the with block (the playwright driver is stopped), then either
\* `return content` or the pending exception leaves fetch_content and, as
\* neither logic function nor tool catches it, the tool call.
ExitWith ==
    /\ pc = "exit"
    /\ playwright' = "stopped"
    /\ pc' = IF propagating THEN "raised" ELSE "returned"
    /\ UNCHANGED <<op, url, env_cookie, browser, context, cookies, ctx_cookies,
                   page, content, err, propagating, result>>

\* get_latest_briefing: the rest of _get_latest_briefing_logic
BriefingReturn ==
    /\ pc = "returned"
    /\ op = "briefing"
    /\ result' = BriefingLogic(content)
    /\ pc' = "done"
    /\ UNCHANGED <<op, url, env_cookie, playwright, browser, context, cookies,
                   ctx_cookies, page, content, err, propagating>>

\* read_full_article: the rest of _read_full_article_logic
ArticleReturn ==
    /\ pc = "returned"
    /\ op = "article"
    /\ result' = ArticleLogic(content)
    /\ pc' = "done"
    /\ UNCHANGED <<op, url, env_cookie, playwright, browser, context, cookies,
                   ctx_cookies, page, content, err, propagating>>

NextWith(elements, maxlen) ==
    \/ EnterPlaywright
    \/ Launch
    \/ NewContext
    \/ ParseCookies
    \/ AddCookies
    \/ NewPage
    \/ RaiseBeforeTry
    \/ Goto
    \/ WaitForSelector
    \/ Evaluate
    \/ WaitForTimeout
    \/ Content(elements, maxlen)
    \/ RaiseInTry
    \/ BrowserClose
    \/ ExitWith
    \/ BriefingReturn
    \/ ArticleReturn

\* Every cookie string, a few pages.
InitFetch == InitWith({Unset} \cup {EnvStr(s) : s \in CookieStrings})
NextFetch == NextWith(SampleElements, 1)
SpecFetch == InitFetch /\ [][NextFetch]_vars

\* Every page, the example cookie string.
InitExtract == InitWith({EnvStr(ExampleCookie)})
NextExtract == NextWith(Elements, MaxElems)
SpecExtract == InitExtract /\ [][NextExtract]_vars

(***************************************************************************)
(* Properties of fetch_content.                                            *)
(***************************************************************************)
Ended == pc \in {"raised", "returned", "done"}

\* C1: fetch_content never raises to its caller: whenever a step of the
\* fetch has failed, the call returns the empty document "" instead of
\* letting the exception propagate.
C1_NeverRaises ==
    (Ended /\ err # "none") => (pc # "raised" /\ content = EmptyHtml)

C4_FetchFailedMessage ==
    (pc = "done" /\ content.empty) => result = Failed(ErrFetchFailed)

\* The cookie loop has run.
CookiesParsed ==
    \/ pc \in {"add_cookies", "new_page", "goto", "wait_for_selector", "evaluate",
               "wait_for_timeout", "content", "finally"}
    \/ pc \in {"exit", "raised", "returned", "done"} /\ err \notin {"launch", "new_context"}

\* The k-th smallest member of a set of integers, and the set in order.
Nth(S, k) == CHOOSE i \in S : Cardinality({j \in S : j < i}) = k - 1
InOrder(S) == [k \in 1..Cardinality(S) |-> Nth(S, k)]

\* The `;`-separated segments of s, as pairs of the positions that delimit
\* them, and those that contain `=`.
Delimiters(s) == {0, Len(s) + 1} \cup {i \in 1..Len(s) : s[i] = ";"}
SegmentStarts(s) == Delimiters(s) \ {Len(s) + 1}
SegmentOf(s, lo) ==
    SubSeq(s, lo + 1, (CHOOSE hi \in Delimiters(s) :
                          hi > lo /\ \A d \in Delimiters(s) : d > lo => hi <= d) - 1)
WellFormedStarts(s) ==
    {lo \in SegmentStarts(s) : \E i \in 1..Len(SegmentOf(s, lo)) : SegmentOf(s, lo)[i] = "="}

\* cookie is what the segment yields: name and value are the trimmed segment
\* split at its first `=`.
YieldedBy(cookie, segment) ==
    /\ cookie.name \o <<"=">> \o cookie.value = Strip(segment)
    /\ \A i \in 1..Len(cookie.name) : cookie.name[i] # "="
    /\ cookie.domain = ".economist.com"
    /\ cookie.path = "/"

\* C8: each segment of the cookie string that contains `=` yields exactly
\* one cookie {name, value, domain ".economist.com", path "/"}, split at the
\* first `=` of the trimmed segment, in input order; segments without `=`
\* are dropped; "a=1; b=2;badtoken;c=3" yields a=1, b=2, c=3.
C8_CookieParsing ==
    CookiesParsed =>
        /\ ~env_cookie.set => cookies = <<>>
        /\ env_cookie.set =>
             LET s == env_cookie.str
                 starts == InOrder(WellFormedStarts(s))
             IN  /\ Len(cookies) = Len(starts)
                 /\ \A k \in 1..Len(starts) : YieldedBy(cookies[k], SegmentOf(s, starts[k]))
        /\ (env_cookie.set /\ env_cookie.str = ExampleCookie) =>
             cookies = << [name |-> <<"a">>, value |-> <<"1">>,
                           domain |-> ".economist.com", path |-> "/"],
                          [name |-> <<"b">>, value |-> <<"2">>,
                           domain |-> ".economist.com", path |-> "/"],
                          [name |-> <<"c">>, value |-> <<"3">>,
                           domain |-> ".economist.com", path |-> "/"] >>

\* The example string has been parsed into three cookies and they have been
\* added to the context.
C8_Witness ==
    /\ env_cookie.set
    /\ env_cookie.str = ExampleCookie
    /\ pc = "new_page"
    /\ Len(cookies) = 3
    /\ ctx_cookies = cookies

(***************************************************************************)
(* Properties of the two extractors.                                       *)
(***************************************************************************)
\* The document a finished call has extracted from.
Extracted(operation) == pc = "done" /\ op = operation /\ ~content.empty
Doc == Soup(content)
DocText == SoupText(Doc)
HasChallengeMarker == Contains(DocText, JustAMoment) \/ Contains(DocText, EnableJavaScript)

\* Positions of the elements the briefing extractor searches and matches.
BriefingMatches == {i \in ContainerScope(Doc) : BriefingSelector(Doc.elems[i])}

ErrorMessages ==
    {ErrFetchFailed, ErrBriefingBlocked, ErrStructureChanged, ErrBriefingTooShort,
     ErrArticleBlocked, ErrContainerMissing, ErrInsufficient}

\* C5: whenever the formatted output text is shorter than 100 characters
\* the result is an "Error: ..." string, also when fragments were matched;
\* every non-error result has length at least 100.
C5_ShortOutputFails ==
    pc = "done" =>
        /\ result.ok => Len(result.text) >= 100
        /\ ~result.ok => result.msg \in ErrorMessages
        /\ (Extracted("briefing") /\ BriefingMatches # {}
              /\ Len(BriefingFullText(Doc)) < 100) => ~result.ok
        /\ (Extracted("article") /\ HasArticle(Doc)
              /\ Len(ArticleFullText(Doc)) < 100) => ~result.ok

\* Fragments were matched, the text they give is shorter than 100
\* characters, and the briefing extractor returned an error.
C5_Witness ==
    /\ Extracted("briefing")
    /\ BriefingParts(<<>>, BriefingElements(Doc)) # <<>>
    /\ Len(BriefingFullText(Doc)) \in 1..99
    /\ ~result.ok
    /\ result.msg = ErrBriefingTooShort

\* Positions, in document order, of the paragraph-marker elements of the
\* article container, and of those among them with non-empty text.
ParagraphPositions ==
    InOrder({i \in ArticleScope(Doc) : IsParagraph(Doc.elems[i])})
NonEmptyParagraphPositions ==
    InOrder({i \in ArticleScope(Doc) :
                IsParagraph(Doc.elems[i]) /\ GetTextSep(Doc.elems[i]) # <<>>})
TextsAt(positions) == [k \in 1..Len(positions) |-> GetTextSep(Doc.elems[positions[k]])]

TitlePositions == {i \in ArticleScope(Doc) : IsTitleStyle(Doc.elems[i])}
SubheadingPositions == {i \in ArticleScope(Doc) : IsSubheadingStyle(Doc.elems[i])}
FirstTitleText == GetTextStrip(Doc.elems[Nth(TitlePositions, 1)])

\* The case of C6: container, title marker, no subheading marker, N > 0
\* paragraph-marker elements.
C6_Case ==
    /\ Extracted("article")
    /\ HasArticle(Doc)
    /\ TitlePositions # {}
    /\ SubheadingPositions = {}
    /\ Len(ParagraphPositions) > 0

\* The output with one Title: line, no Subheading: line and the given
\* paragraphs after the Body: marker.
TitleAndBody(paragraphs) ==
    TitlePrefix \o FirstTitleText \o <<"\n">> \o <<"\n","B","o","d","y",":","\n">>
    \o Join(paragraphs, <<"\n","\n">>)

\* C6 as stated: in that case the output has exactly one Title: line, no
\* Subheading: line and the N paragraphs in document order.
C6_ArticleOutput ==
    C6_Case => result = Ok(TitleAndBody(TextsAt(ParagraphPositions)))

\* C6 amended: in that case, if at least one paragraph has non-empty
\* normalized text and the formatted output has at least 100 characters,
\* the output is the line `Title: <title>`, no Subheading: line, the Body:
\* marker and the non-empty normalized paragraph texts in document order,
\* joined by blank lines; otherwise the result is the InsufficientContent
\* error.
C6_ArticleOutputWhenSufficient ==
    C6_Case =>
        LET expected == TitleAndBody(TextsAt(NonEmptyParagraphPositions))
        IN  IF Len(NonEmptyParagraphPositions) > 0 /\ Len(expected) >= 100
            THEN result = Ok(expected)
            ELSE result = Failed(ErrInsufficient)

\* A title and two different non-empty paragraphs gave a successful result.
C6_Witness ==
    /\ C6_Case
    /\ Len(NonEmptyParagraphPositions) = 2
    /\ TextsAt(NonEmptyParagraphPositions)[1] # TextsAt(NonEmptyParagraphPositions)[2]
    /\ result.ok

\* C7: a briefing document in which no element matches any of the three
\* briefing selectors and whose text has no challenge marker gives the
\* StructureChanged error, never BlockedByChallenge and never a success.
C7_StructureChanged ==
    (/\ Extracted("briefing")
     /\ \A i \in 1..Len(Doc.elems) :
           /\ ~IsBriefParagraph(Doc.elems[i])
           /\ ~IsHeadingStyle(Doc.elems[i])
           /\ ~IsParagraph(Doc.elems[i])
     /\ ~HasChallengeMarker)
    => result = Failed(ErrStructureChanged)

\* A page with elements, none of them matching, was reported as
\* StructureChanged.
C7_Witness ==
    /\ Extracted("briefing")
    /\ Len(Doc.elems) > 0
    /\ \A i \in 1..Len(Doc.elems) : ~BriefingSelector(Doc.elems[i])
    /\ ~HasChallengeMarker
    /\ result = Failed(ErrStructureChanged)

\* C9: when the article container is absent, the article extractor returns
\* BlockedByChallenge if the text contains "Just a moment" or
\* "Enable JavaScript", and ContainerMissing only if it contains neither.
C9_ArticleSameHeuristic ==
    (Extracted("article") /\ ~HasArticle(Doc)) =>
        /\ HasChallengeMarker => result = Failed(ErrArticleBlocked)
        /\ result = Failed(ErrContainerMissing) => ~HasChallengeMarker

\* Positions, in document order, of the matched elements with non-empty
\* normalized text.
FragmentPositions ==
    InOrder({i \in BriefingMatches : GetTextSep(Doc.elems[i]) # <<>>})

\* C10 as stated: every matched element with non-empty text gives one
\* fragment, in document order, heading-marker elements as `## ` and their
\* text, paragraph-marker elements as their text, and consecutive fragments
\* are separated by exactly one blank line.
StatedFragment(e) ==
    IF IsHeadingStyle(e) THEN <<"#","#"," ">> \o GetTextSep(e) ELSE GetTextSep(e)

C10_BriefingFormat ==
    (Extracted("briefing") /\ result.ok) =>
        result.text =
            Join([k \in 1..Len(FragmentPositions) |->
                     StatedFragment(Doc.elems[FragmentPositions[k]])], <<"\n","\n">>)

\* C10 amended: every matched element with non-empty normalized text gives
\* one fragment, in document order; an element carrying the class
\* css-p09rkj that is not a the-world-in-brief-paragraph is rendered as a
\* newline, `## ` and its normalized text, every other matched element as
\* its normalized text; the fragments are joined by "\n\n", so a heading is
\* preceded by two blank lines (by one empty line when it comes first).
RenderedFragment(e) ==
    IF "css-p09rkj" \in e.class
       /\ ~(e.name = "p" /\ e.dc = "the-world-in-brief-paragraph")
    THEN <<"\n","#","#"," ">> \o GetTextSep(e)
    ELSE GetTextSep(e)

C10_BriefingFormatWithHeadingNewline ==
    (Extracted("briefing") /\ result.ok) =>
        result.text =
            Join([k \in 1..Len(FragmentPositions) |->
                     RenderedFragment(Doc.elems[FragmentPositions[k]])], <<"\n","\n">>)

\* A successful briefing in which a heading follows a paragraph.
C10_Witness ==
    /\ Extracted("briefing")
    /\ result.ok
    /\ \E k \in 2..Len(FragmentPositions) :
          /\ IsHeadingStyle(Doc.elems[FragmentPositions[k]])
          /\ Doc.elems[FragmentPositions[k]].name # "p"
          /\ IsBriefParagraph(Doc.elems[FragmentPositions[k - 1]])

====
